---- MODULE Spec2Model ----
(***************************************************************************)
(* Model of src/process_events.py: the event reconciliation pipeline       *)
(* (load_from_file, clean_data, the merge loop of main, save_to_file,      *)
(* create_ics_file).  Python values are tagged records; a Python str is a  *)
(* sequence of tokens so that replace/strip/json.loads are computed.       *)
(***************************************************************************)
EXTENDS Integers, Sequences, FiniteSets, TLC

VARIABLES
    CLEANED_DATA_FILE,      \* contents of cleaned_data.json on disk
    ICS_FILE,               \* contents of events.ics on disk
    pc,                     \* position of the current run of main()
    existing_events_list,   \* main: result of load_from_file
    events_dict,            \* main: id-keyed dict (insertion ordered)
    raw_response_data,      \* main: result of fetch_data
    newly_cleaned_events,   \* main: result of clean_data
    new_count,              \* main: merge counter (Unbound outside the merge)
    updated_count,          \* main: merge counter (Unbound outside the merge)
    final_events_list,      \* main: list(events_dict.values())
    runs                    \* number of runs of main() started so far

vars == <<CLEANED_DATA_FILE, ICS_FILE, pc, existing_events_list, events_dict,
          raw_response_data, newly_cleaned_events, new_count, updated_count,
          final_events_list, runs>>

(***************************************************************************)
(* Bounds of the model.                                                    *)
(***************************************************************************)
MaxRuns == 2
MaxStored == 2
MaxNodes == 2

(***************************************************************************)
(* Python values.                                                          *)
(***************************************************************************)
None == [t |-> "none"]
PyStr(toks) == [t |-> "str", v |-> toks]
Str(tok) == [t |-> "str", v |-> <<tok>>]
EmptyStr == [t |-> "str", v |-> <<>>]
PyInt(n) == [t |-> "int", v |-> n]
PyList(s) == [t |-> "list", v |-> s]
PyDict(f) == [t |-> "dict", v |-> f]
EmptyDict == [t |-> "dict", v |-> <<>>]

\* Python truth value testing (`if x`, `not x`).
Truthy(x) ==
    CASE x.t = "none" -> FALSE
      [] x.t = "str"  -> x.v # <<>>
      [] x.t = "int"  -> x.v # 0
      [] x.t = "list" -> x.v # <<>>
      [] x.t = "dict" -> DOMAIN x.v # {}

\* Outcome of an expression that may raise.
Ok(x) == [ok |-> TRUE, val |-> x]
Raise == [ok |-> FALSE, val |-> None]

\* `k in x` for a str key k.
In(k, x) ==
    CASE x.t = "dict" -> Ok(k \in DOMAIN x.v)
      [] x.t = "list" -> Ok(\E i \in DOMAIN x.v : x.v[i] = Str(k))
      [] x.t = "str"  -> Ok(\E i \in DOMAIN x.v : x.v[i] = k)
      [] OTHER        -> Raise

\* `x[k]` for a str key k.
GetItem(x, k) ==
    IF x.t = "dict" /\ k \in DOMAIN x.v THEN Ok(x.v[k]) ELSE Raise

\* `d.get(k, default)`; only dicts have .get.
Get(d, k, default) ==
    IF d.t # "dict" THEN Raise
    ELSE IF k \in DOMAIN d.v THEN Ok(d.v[k]) ELSE Ok(default)

\* `for e in x`: the sequence of items iterated over.  A dict iterates over
\* its keys; every loop of the program raises on its first str item, so one
\* key stands for them all.
Iter(x) ==
    CASE x.t = "list" -> Ok(x.v)
      [] x.t = "str"  -> Ok([i \in DOMAIN x.v |-> Str(x.v[i])])
      [] x.t = "dict" -> IF DOMAIN x.v = {} THEN Ok(<<>>)
                         ELSE LET k == CHOOSE k \in DOMAIN x.v : TRUE
                              IN  Ok(<<Str(k)>>)
      [] OTHER        -> Raise

SeqsUpTo(S, n) == UNION {[1..k -> S] : k \in 0..n}

(***************************************************************************)
(* String operations used by clean_data.                                   *)
(***************************************************************************)
WS == " "
ComingSoon == "(Coming Soon)"
Quote == "\""

\* A replace that removes nothing.
ReplaceNothing(s) == s

\* str.replace('(Coming Soon) ', ''): every occurrence, left to right.
RECURSIVE Replace(_)
Replace(s) ==
    IF s = <<>> THEN <<>>
    ELSE IF Len(s) >= 2 /\ s[1] = ComingSoon /\ s[2] = WS
         THEN Replace(SubSeq(s, 3, Len(s)))
         ELSE <<s[1]>> \o Replace(Tail(s))

RECURSIVE LStrip(_)
LStrip(s) == IF s # <<>> /\ s[1] = WS THEN LStrip(Tail(s)) ELSE s

RECURSIVE RStrip(_)
RStrip(s) ==
    IF s # <<>> /\ s[Len(s)] = WS THEN RStrip(SubSeq(s, 1, Len(s) - 1)) ELSE s

\* str.strip()
Strip(s) == RStrip(LStrip(s))

\* Number literals of the modelled JSON texts.
NumberTokens == {"0", "7"}
NumberOf(tok) == IF tok = "0" THEN 0 ELSE 7

\* json.loads(x): a non-str argument raises TypeError, a text that is not a
\* JSON document raises JSONDecodeError (both reported as a failed outcome).
JsonLoads(x) ==
    IF x.t # "str" THEN Raise
    ELSE LET s == Strip(x.v) IN
         CASE s = <<"null">> -> Ok(None)
           [] Len(s) = 1 /\ s[1] \in NumberTokens -> Ok(PyInt(NumberOf(s[1])))
           [] s = <<"[", "]">> -> Ok(PyList(<<>>))
           [] /\ Len(s) >= 2
              /\ s[1] = Quote /\ s[Len(s)] = Quote
              /\ \A i \in 2..(Len(s) - 1) : s[i] # Quote
              -> Ok(PyStr(SubSeq(s, 2, Len(s) - 1)))
           [] OTHER -> Raise

(***************************************************************************)
(* clean_data (lines 94-138).                                              *)
(***************************************************************************)
\* Lines 114-131: the loop over post['fields'] from index i, carrying the
\* begin/end found so far.
RECURSIVE FieldsLoop(_, _, _, _)
FieldsLoop(fields, i, begin, end) ==
    IF i > Len(fields) THEN [ok |-> TRUE, begin |-> begin, end |-> end]
    ELSE LET field == fields[i]
             field_key == Get(field, "key", None)
             field_value_str == Get(field, "value", None)
         IN  IF ~field_key.ok THEN [ok |-> FALSE, begin |-> begin, end |-> end]
             ELSE IF field_value_str.val = None
                  THEN FieldsLoop(fields, i + 1, begin, end)
             ELSE LET decoded == JsonLoads(field_value_str.val)
                      field_value == IF decoded.ok THEN decoded.val
                                     ELSE field_value_str.val
                  IN  IF field_key.val = Str("start_date")
                      THEN FieldsLoop(fields, i + 1, field_value, end)
                      ELSE IF field_key.val = Str("end_date")
                      THEN FieldsLoop(fields, i + 1, begin, field_value)
                      ELSE FieldsLoop(fields, i + 1, begin, end)

\* A filter that only drops a begin of None.
IncludedUnlessNone(begin) == begin # None

\* Line 134: only events that have a start time are included.
Included(begin) == Truthy(begin)

\* Lines 104-135: one iteration of the loop over the posts.  emit says
\* whether the cleaned event is appended.
CleanPost(post) ==
    LET id == Get(post, "id", None)
        title == Get(post, "title", Str("No Title"))
        description == Get(post, "description", EmptyStr)
        url == Get(post, "url", EmptyStr)
        failed == [ok |-> FALSE, emit |-> FALSE, event |-> None]
    IN  IF post.t # "dict" THEN failed
        ELSE IF title.val.t # "str" \/ description.val.t # "str" THEN failed
        ELSE
        LET hasFields == "fields" \in DOMAIN post.v /\ Truthy(post.v["fields"])
            it == IF hasFields THEN Iter(post.v["fields"]) ELSE Ok(<<>>)
            fl == IF it.ok THEN FieldsLoop(it.val, 1, None, None)
                  ELSE [ok |-> FALSE, begin |-> None, end |-> None]
            cleaned_event == PyDict([id |-> id.val,
                                     summary |-> PyStr(Strip(Replace(title.val.v))),
                                     description |-> PyStr(Strip(description.val.v)),
                                     url |-> url.val,
                                     begin |-> fl.begin,
                                     end |-> fl.end])
        IN  IF ~fl.ok THEN failed
            ELSE [ok |-> TRUE, emit |-> Included(fl.begin), event |-> cleaned_event]

\* Lines 102-135: the loop over the posts from index i.
RECURSIVE PostsLoop(_, _, _)
PostsLoop(nodes, i, cleaned_events) ==
    IF i > Len(nodes) THEN Ok(cleaned_events)
    ELSE LET r == CleanPost(nodes[i])
         IN  IF ~r.ok THEN Raise
             ELSE PostsLoop(nodes, i + 1,
                            IF r.emit THEN Append(cleaned_events, r.event)
                            ELSE cleaned_events)

\* Line 98: the shape guard, evaluated left to right with short circuit.
\* "empty": return []; "nodes": go on to the loop; "raise": an exception.
ShapeGuard(raw_data) ==
    IF ~Truthy(raw_data) THEN "empty"
    ELSE LET hasData == In("data", raw_data) IN
    IF ~hasData.ok THEN "raise" ELSE IF ~hasData.val THEN "empty"
    ELSE LET data == GetItem(raw_data, "data") IN
    IF ~data.ok THEN "raise"
    ELSE LET hasPosts == In("posts", data.val) IN
    IF ~hasPosts.ok THEN "raise" ELSE IF ~hasPosts.val THEN "empty"
    ELSE LET posts == GetItem(data.val, "posts") IN
    IF ~posts.ok THEN "raise"
    ELSE LET hasNodes == In("nodes", posts.val) IN
    IF ~hasNodes.ok THEN "raise" ELSE IF ~hasNodes.val THEN "empty"
    ELSE IF ~GetItem(posts.val, "nodes").ok THEN "raise" ELSE "nodes"

\* clean_data(raw_data): Ok(list of cleaned events) or Raise.
clean_data(raw_data) ==
    LET g == ShapeGuard(raw_data) IN
    CASE g = "empty" -> Ok(<<>>)
      [] g = "raise" -> Raise
      [] g = "nodes" ->
            LET it == Iter(raw_data.v["data"].v["posts"].v["nodes"])
            IN  IF ~it.ok THEN Raise ELSE PostsLoop(it.val, 1, <<>>)

(***************************************************************************)
(* Files on disk.  A JSON file is modelled by the document it holds.       *)
(***************************************************************************)
Absent == [kind |-> "absent"]              \* no such file
EmptyFile == [kind |-> "empty"]            \* zero bytes
InvalidFile == [kind |-> "invalid"]        \* text that is no JSON document
UndecodableFile == [kind |-> "undecodable"]  \* bytes that are not UTF-8
JsonFile(doc) == [kind |-> "json", doc |-> doc]
IcsFile(entries) == [kind |-> "ics", entries |-> entries]

\* A load that lets the decode error of an unparsable file through.
LoadUnguarded(file) ==
    CASE file.kind = "absent"      -> Ok(PyList(<<>>))
      [] file.kind = "undecodable" -> Raise
      [] file.kind = "empty"       -> Ok(PyList(<<>>))
      [] file.kind = "invalid"     -> Raise
      [] file.kind = "json"        -> Ok(file.doc)

\* load_from_file(filename) (lines 78-92).
load_from_file(file) ==
    CASE file.kind = "absent"      -> Ok(PyList(<<>>))
      [] file.kind = "undecodable" -> Raise
      [] file.kind = "empty"       -> Ok(PyList(<<>>))
      [] file.kind = "invalid"     -> Ok(PyList(<<>>))
      [] file.kind = "json"        -> Ok(file.doc)

(***************************************************************************)
(* The id-keyed dict of main: a sequence of (k, v) items in insertion      *)
(* order, with at most one item per key.                                   *)
(***************************************************************************)
HasKey(d, k) == \E i \in DOMAIN d : d[i].k = k

\* A dict assignment that never replaces an item.
SetItemAppends(d, k, v) == Append(d, [k |-> k, v |-> v])

\* A dict assignment that keeps the item a key already has.
SetItemKeepsFirst(d, k, v) ==
    IF \E i \in DOMAIN d : d[i].k = k THEN d ELSE Append(d, [k |-> k, v |-> v])

\* d[k] = v
SetItem(d, k, v) ==
    IF HasKey(d, k)
    THEN [i \in DOMAIN d |-> IF d[i].k = k THEN [k |-> k, v |-> v] ELSE d[i]]
    ELSE Append(d, [k |-> k, v |-> v])

\* list(d.values())
Values(d) == [i \in DOMAIN d |-> d[i].v]

\* Line 179: the dict comprehension over existing_events_list from index i.
RECURSIVE BuildLoop(_, _, _)
BuildLoop(items, i, d) ==
    IF i > Len(items) THEN Ok(d)
    ELSE LET event == items[i]
             id == Get(event, "id", None)
         IN  IF ~id.ok THEN Raise
             ELSE IF Truthy(id.val)
                  THEN BuildLoop(items, i + 1, SetItem(d, event.v["id"], event))
                  ELSE BuildLoop(items, i + 1, d)

\* A run that starts from an empty dict whatever was loaded.
BuildNothing(existing) == Ok(<<>>)

BuildDict(existing) ==
    LET it == Iter(existing)
    IN  IF ~it.ok THEN Raise ELSE BuildLoop(it.val, 1, <<>>)

\* Lines 194-205: the merge loop over newly_cleaned_events from index i.
RECURSIVE MergeLoop(_, _, _, _, _)
MergeLoop(events, i, d, new, updated) ==
    IF i > Len(events)
    THEN [events_dict |-> d, new_count |-> new, updated_count |-> updated]
    ELSE LET event == events[i]
             event_id == Get(event, "id", None).val
         IN  IF ~Truthy(event_id)
             THEN MergeLoop(events, i + 1, d, new, updated)
             ELSE IF HasKey(d, event_id)
                  THEN MergeLoop(events, i + 1, SetItem(d, event_id, event),
                                 new, updated + 1)
                  ELSE MergeLoop(events, i + 1, SetItem(d, event_id, event),
                                 new + 1, updated)

\* A merge that counts every merged event as new.
MergeCountsAllNew(d, events) ==
    LET m == MergeLoop(events, 1, d, 0, 0)
    IN  [events_dict |-> m.events_dict,
         new_count |-> m.new_count + m.updated_count,
         updated_count |-> 0]

\* A merge that counts the events it skips as updated.
MergeCountsSkipped(d, events) ==
    LET m == MergeLoop(events, 1, d, 0, 0)
    IN  [events_dict |-> m.events_dict,
         new_count |-> m.new_count,
         updated_count |-> Len(events) - m.new_count]

\* Lines 194-205 from the first event, both counters at 0.
Merge(d, events) == MergeLoop(events, 1, d, 0, 0)

(***************************************************************************)
(* create_ics_file (lines 140-171).                                        *)
(***************************************************************************)
D1 == "2024-01-01T10:00:00"
D2 == "2024-01-02T10:00:00"
IsoDates == {D1, D2}
Later(a, b) == a = D2 /\ b = D1

\* The ics library's conversion of a begin/end value: None stays None, a
\* str must be a date the library parses.
Parses(x) == x = None \/ (x.t = "str" /\ Len(x.v) = 1 /\ x.v[1] \in IsoDates)

EventKeys == {"id", "summary", "begin", "end", "description", "url"}

\* Lines 147-163: the body of the try for one event; ok = FALSE is the
\* except branch (the event is skipped).
RenderEvent(event_data) ==
    LET e == event_data.v
        skipped == [ok |-> FALSE, entry |-> None]
    IN  IF ~(EventKeys \subseteq DOMAIN e) THEN skipped
        ELSE IF ~Parses(e["begin"]) THEN skipped
        ELSE IF Truthy(e["end"]) /\ ~Parses(e["end"]) THEN skipped
        ELSE IF /\ Truthy(e["end"]) /\ e["begin"] # None
                /\ Later(e["begin"].v[1], e["end"].v[1]) THEN skipped
        ELSE [ok |-> TRUE,
              entry |-> [uid |-> e["id"], name |-> e["summary"],
                         begin |-> e["begin"],
                         end |-> IF Truthy(e["end"]) THEN e["end"] ELSE None,
                         description |-> e["description"],
                         url |-> IF Truthy(e["url"]) THEN e["url"] ELSE None]]

\* A render whose loop stops at the first event that fails.
CalEventsUntilFailure(events) ==
    {RenderEvent(events[i]).entry :
        i \in {j \in DOMAIN events :
                 \A k \in 1..j : RenderEvent(events[k]).ok}}

\* cal.events after the loop of lines 146-163.
CalEvents(events) ==
    {RenderEvent(events[i]).entry :
        i \in {j \in DOMAIN events : RenderEvent(events[j]).ok}}

\* A render that writes the calendar even when it has no events.
WriteAlways(events, file) == IcsFile(CalEvents(events))

\* The calendar file after create_ics_file(events, filename).
create_ics_file(events, file) ==
    IF CalEvents(events) = {} THEN file ELSE IcsFile(CalEvents(events))

(***************************************************************************)
(* Inputs: what the run may find on disk and what fetch_data may return.   *)
(***************************************************************************)
StoredEvent(id, summary, begin) ==
    PyDict([id |-> id, summary |-> Str(summary), description |-> EmptyStr,
            url |-> EmptyStr, begin |-> begin, end |-> None])

\* Elements of a JSON array found in cleaned_data.json.
StoredElems ==
    { StoredEvent(Str("A"), "old", Str(D1)),
      StoredEvent(Str("A"), "older", Str(D2)),
      StoredEvent(Str("B"), "undated", None),
      StoredEvent(EmptyStr, "anonymous", Str(D1)),
      PyDict([id |-> Str("B"), summary |-> Str("partial")]) }

\* JSON documents that are not arrays of objects.
OtherDocs ==
    { None, PyInt(7), EmptyDict, PyDict([events |-> PyList(<<>>)]),
      PyList(<<Str("junk")>>) }

InitialStoreFiles ==
    {Absent, EmptyFile, InvalidFile, UndecodableFile}
    \cup {JsonFile(PyList(s)) : s \in SeqsUpTo(StoredElems, MaxStored)}
    \cup {JsonFile(d) : d \in OtherDocs}

OldEntry == [uid |-> Str("Z"), name |-> Str("previous"), begin |-> Str(D1),
             end |-> None, description |-> EmptyStr, url |-> None]

InitialIcsFiles == {Absent, IcsFile({OldEntry})}

Field(key, value) == PyDict([key |-> Str(key), value |-> value])
JsonString(tok) == PyStr(<<Quote, tok, Quote>>)

\* Post records of a fetched payload.
Posts ==
    { PyDict([id |-> Str("A"), title |-> Str("new"),
              description |-> PyStr(<<WS, "text", WS>>), url |-> Str("http://u"),
              fields |-> PyList(<<Field("start_date", JsonString(D1)),
                                  Field("end_date", JsonString(D2))>>)]),
      PyDict([id |-> Str("x1"), title |-> PyStr(<<ComingSoon, WS, "Demo">>),
              fields |-> PyList(<<Field("start_date", JsonString(D1))>>)]),
      PyDict([id |-> Str("A"), title |-> PyStr(<<WS, "late">>),
              fields |-> PyList(<<Field("platform", Str("7")),
                                  Field("start_date", Str("tomorrow"))>>)]),
      PyDict([id |-> Str("x1"), title |-> Str("dropped"),
              fields |-> PyList(<<Field("start_date", Str("null"))>>)]),
      PyDict([title |-> Str("anonymous"),
              fields |-> PyList(<<Field("start_date", JsonString(D2))>>)]) }

\* A post whose title is null.
NullTitlePost ==
    PyDict([id |-> Str("B"), title |-> None,
            fields |-> PyList(<<Field("start_date", JsonString(D1))>>)])

Payload(nodes) == PyDict([data |-> PyDict([posts |-> PyDict([nodes |-> nodes])])])

\* What fetch_data may return: None on a request failure, else the decoded
\* response body.
FetchResults ==
    { None, EmptyDict,
      PyDict([errors |-> PyList(<<>>)]),
      PyDict([data |-> None]),
      PyDict([data |-> PyDict([posts |-> EmptyDict])]),
      Payload(None),
      Payload(PyList(<<NullTitlePost>>)) }
    \cup {Payload(PyList(s)) : s \in SeqsUpTo(Posts, MaxNodes)}

(***************************************************************************)
(* The run of main() (lines 173-219), one action per step.                 *)
(***************************************************************************)
Init ==
    /\ CLEANED_DATA_FILE \in InitialStoreFiles
    /\ ICS_FILE \in InitialIcsFiles
    /\ pc = "idle"
    /\ existing_events_list = None
    /\ events_dict = <<>>
    /\ raw_response_data = None
    /\ newly_cleaned_events = <<>>
    /\ new_count = None
    /\ updated_count = None
    /\ final_events_list = <<>>
    /\ runs = 0

RunEnded == pc \in {"idle", "done", "raised", "interrupted"}

\* The locals of main() do not outlive the run.
LocalsGone ==
    /\ existing_events_list' = None
    /\ events_dict' = <<>>
    /\ raw_response_data' = None
    /\ newly_cleaned_events' = <<>>
    /\ new_count' = None
    /\ updated_count' = None
    /\ final_events_list' = <<>>

\* Lines 176-180: a run starts; load the file and build the dict.
LoadExisting ==
    /\ RunEnded
    /\ runs < MaxRuns
    /\ runs' = runs + 1
    /\ LET loaded == load_from_file(CLEANED_DATA_FILE)
           built == IF loaded.ok THEN BuildDict(loaded.val) ELSE Raise
       IN  /\ existing_events_list' = IF built.ok THEN loaded.val ELSE None
           /\ events_dict' = IF built.ok THEN built.val ELSE <<>>
           /\ pc' = IF built.ok THEN "loaded" ELSE "raised"
    /\ UNCHANGED <<CLEANED_DATA_FILE, ICS_FILE, raw_response_data,
                   newly_cleaned_events, new_count, updated_count,
                   final_events_list>>

\* A fetch step without the early return of lines 184-186.
FetchGoesOn ==
    /\ pc = "loaded"
    /\ \E r \in FetchResults :
          /\ raw_response_data' = r
          /\ pc' = "fetched"
    /\ UNCHANGED <<CLEANED_DATA_FILE, ICS_FILE, existing_events_list,
                   events_dict, newly_cleaned_events, new_count, updated_count,
                   final_events_list, runs>>

\* Lines 183-186: fetch; no data ends the run.
Fetch ==
    /\ pc = "loaded"
    /\ \E r \in FetchResults :
          IF Truthy(r)
          THEN /\ raw_response_data' = r
               /\ pc' = "fetched"
               /\ UNCHANGED <<existing_events_list, events_dict,
                              newly_cleaned_events, new_count, updated_count,
                              final_events_list>>
          ELSE /\ pc' = "done"
               /\ LocalsGone
    /\ UNCHANGED <<CLEANED_DATA_FILE, ICS_FILE, runs>>

\* Line 189: clean the fetched payload.
Clean ==
    /\ pc = "fetched"
    /\ LET c == clean_data(raw_response_data)
       IN  IF c.ok
           THEN /\ newly_cleaned_events' = c.val
                /\ pc' = "cleaned"
                /\ UNCHANGED <<existing_events_list, events_dict,
                               raw_response_data, new_count, updated_count,
                               final_events_list>>
           ELSE /\ pc' = "raised"
                /\ LocalsGone
    /\ UNCHANGED <<CLEANED_DATA_FILE, ICS_FILE, runs>>

\* A main that returns when nothing was cleaned, as it does when nothing
\* was fetched.
MergeStepReturnsWhenEmpty ==
    /\ pc = "cleaned"
    /\ IF newly_cleaned_events = <<>>
       THEN /\ pc' = "done"
            /\ LocalsGone
            /\ UNCHANGED <<CLEANED_DATA_FILE, ICS_FILE, runs>>
       ELSE LET m == MergeLoop(newly_cleaned_events, 1, events_dict, 0, 0)
            IN  /\ events_dict' = m.events_dict
                /\ new_count' = PyInt(m.new_count)
                /\ updated_count' = PyInt(m.updated_count)
                /\ final_events_list' = Values(m.events_dict)
                /\ pc' = "merged"
                /\ UNCHANGED <<CLEANED_DATA_FILE, ICS_FILE,
                               existing_events_list, raw_response_data,
                               newly_cleaned_events, runs>>

\* Lines 190-209: merge (skipped for an empty list), then the final list.
MergeStep ==
    /\ pc = "cleaned"
    /\ IF newly_cleaned_events = <<>>
       THEN /\ UNCHANGED <<events_dict, new_count, updated_count>>
            /\ final_events_list' = Values(events_dict)
       ELSE LET m == Merge(events_dict, newly_cleaned_events)
            IN  /\ events_dict' = m.events_dict
                /\ new_count' = PyInt(m.new_count)
                /\ updated_count' = PyInt(m.updated_count)
                /\ final_events_list' = Values(m.events_dict)
    /\ pc' = "merged"
    /\ UNCHANGED <<CLEANED_DATA_FILE, ICS_FILE, existing_events_list,
                   raw_response_data, newly_cleaned_events, runs>>

\* Line 74: open(filename, 'w') truncates the file.
SaveOpen ==
    /\ pc = "merged"
    /\ CLEANED_DATA_FILE' = EmptyFile
    /\ pc' = "saving"
    /\ UNCHANGED <<ICS_FILE, existing_events_list, events_dict,
                   raw_response_data, newly_cleaned_events, new_count,
                   updated_count, final_events_list, runs>>

\* Line 74: open fails (OSError); nothing is written.
SaveOpenFails ==
    /\ pc = "merged"
    /\ pc' = "raised"
    /\ LocalsGone
    /\ UNCHANGED <<CLEANED_DATA_FILE, ICS_FILE, runs>>

\* The document json.dump(data, f) writes.
save_to_file(data) == JsonFile(PyList(data))

\* Lines 75-76: json.dump writes the whole document and the file is closed.
SaveWrite ==
    /\ pc = "saving"
    /\ CLEANED_DATA_FILE' = save_to_file(final_events_list)
    /\ pc' = "saved"
    /\ UNCHANGED <<ICS_FILE, existing_events_list, events_dict,
                   raw_response_data, newly_cleaned_events, new_count,
                   updated_count, final_events_list, runs>>

\* A failed write that save_to_file catches, so that main goes on.
SaveWriteFailureSwallowed ==
    /\ pc = "saving"
    /\ CLEANED_DATA_FILE' \in {EmptyFile, InvalidFile}
    /\ pc' = "saved"
    /\ UNCHANGED <<ICS_FILE, existing_events_list, events_dict,
                   raw_response_data, newly_cleaned_events, new_count,
                   updated_count, final_events_list, runs>>

\* Line 75: a write fails (OSError) after none or a part of the document.
SaveWriteFails ==
    /\ pc = "saving"
    /\ CLEANED_DATA_FILE' \in {EmptyFile, InvalidFile}
    /\ pc' = "raised"
    /\ LocalsGone
    /\ UNCHANGED <<ICS_FILE, runs>>

\* A render step taken before the save (lines 212 and 215 swapped).
CreateIcsFirst ==
    /\ pc = "merged"
    /\ ICS_FILE' = create_ics_file(final_events_list, ICS_FILE)
    /\ UNCHANGED <<CLEANED_DATA_FILE, pc, existing_events_list, events_dict,
                   raw_response_data, newly_cleaned_events, new_count,
                   updated_count, final_events_list, runs>>

\* Line 215: render the calendar.
CreateIcs ==
    /\ pc = "saved"
    /\ ICS_FILE' = create_ics_file(final_events_list, ICS_FILE)
    /\ pc' = "done"
    /\ LocalsGone
    /\ UNCHANGED <<CLEANED_DATA_FILE, runs>>

\* The process is killed between two steps; a document being written stays
\* as far as it got.
Interrupt ==
    /\ ~RunEnded
    /\ pc' = "interrupted"
    /\ CLEANED_DATA_FILE' \in
          IF pc = "saving" THEN {EmptyFile, InvalidFile} ELSE {CLEANED_DATA_FILE}
    /\ LocalsGone
    /\ UNCHANGED <<ICS_FILE, runs>>

Next ==
    \/ LoadExisting
    \/ Fetch
    \/ Clean
    \/ MergeStep
    \/ SaveOpen
    \/ SaveOpenFails
    \/ SaveWrite
    \/ SaveWriteFails
    \/ CreateIcs
    \/ Interrupt

Spec == Init /\ [][Next]_vars

(***************************************************************************)
(* A second merge pass over the same list (lines 194-205 run again on the  *)
(* dict the first pass left), for the idempotence of the merge.            *)
(***************************************************************************)
MergeAgain ==
    /\ pc = "merged"
    /\ new_count # None
    /\ LET m == Merge(events_dict, newly_cleaned_events)
       IN  /\ events_dict' = m.events_dict
           /\ new_count' = PyInt(m.new_count)
           /\ updated_count' = PyInt(m.updated_count)
    /\ pc' = "merged_again"
    /\ UNCHANGED <<CLEANED_DATA_FILE, ICS_FILE, existing_events_list,
                   raw_response_data, newly_cleaned_events, final_events_list,
                   runs>>

NextMergeTwice ==
    \/ Next
    \/ MergeAgain

SpecMergeTwice == Init /\ [][NextMergeTwice]_vars

(***************************************************************************)
(* clean_data on its own: a call on each payload of a set of post records  *)
(* that differ in their start_date field.                                  *)
(***************************************************************************)
MaxCleanNodes == 2

CleanPostOf(title, extra) ==
    PyDict([k \in {"id", "title"} \cup DOMAIN extra |->
              IF k = "id" THEN Str("A")
              ELSE IF k = "title" THEN Str(title) ELSE extra[k]])

WithFields(title, fields) == CleanPostOf(title, [fields |-> PyList(fields)])

CleanPosts ==
    { CleanPostOf("no fields", <<>>),
      CleanPostOf("fields null", [fields |-> None]),
      WithFields("fields empty", <<>>),
      WithFields("value null", <<Field("start_date", None)>>),
      WithFields("decodes to null", <<Field("start_date", Str("null"))>>),
      WithFields("decodes to empty str", <<Field("start_date", PyStr(<<Quote, Quote>>))>>),
      WithFields("decodes to empty list", <<Field("start_date", PyStr(<<"[", "]">>))>>),
      WithFields("empty text", <<Field("start_date", EmptyStr)>>),
      WithFields("only end", <<Field("end_date", JsonString(D2))>>),
      WithFields("dated", <<Field("start_date", JsonString(D1))>>),
      WithFields("raw text", <<Field("start_date", Str("tomorrow"))>>),
      WithFields("zero", <<Field("start_date", Str("0"))>>),
      WithFields("null then dated", <<Field("start_date", Str("null")),
                                      Field("start_date", JsonString(D1))>>),
      WithFields("dated then null", <<Field("start_date", JsonString(D1)),
                                      Field("start_date", Str("null"))>>) }

CleanInputs == {Payload(PyList(s)) : s \in SeqsUpTo(CleanPosts, MaxCleanNodes)}

InitClean ==
    /\ CLEANED_DATA_FILE = Absent
    /\ ICS_FILE = Absent
    /\ pc = "clean_data"
    /\ existing_events_list = None
    /\ events_dict = <<>>
    /\ raw_response_data \in CleanInputs
    /\ newly_cleaned_events = <<>>
    /\ new_count = None
    /\ updated_count = None
    /\ final_events_list = <<>>
    /\ runs = 0

\* The call clean_data(raw_response_data) of line 189.
CleanDataCall ==
    /\ pc = "clean_data"
    /\ LET c == clean_data(raw_response_data)
       IN  /\ newly_cleaned_events' = IF c.ok THEN c.val ELSE <<>>
           /\ pc' = IF c.ok THEN "clean_data returned" ELSE "clean_data raised"
    /\ UNCHANGED <<CLEANED_DATA_FILE, ICS_FILE, existing_events_list,
                   events_dict, raw_response_data, new_count, updated_count,
                   final_events_list, runs>>

NextClean == CleanDataCall

SpecClean == InitClean /\ [][NextClean]_vars

(***************************************************************************)
(* Vocabulary of the properties.                                           *)
(***************************************************************************)
\* The id of an event dict (None when it has none).
IdOf(event) ==
    IF event.t = "dict" /\ "id" \in DOMAIN event.v THEN event.v["id"] ELSE None

\* The non-empty ids of a list of event dicts.
IdsIn(events) == {IdOf(events[i]) : i \in {j \in DOMAIN events : Truthy(IdOf(events[j]))}}

Keys(d) == {d[i].k : i \in DOMAIN d}

\* The number of events of a list that carry a non-empty id.
NumWithId(events) == Cardinality({i \in DOMAIN events : Truthy(IdOf(events[i]))})

NoTwoWithSameId(events) ==
    \A i, j \in DOMAIN events : IdOf(events[i]) = IdOf(events[j]) => i = j

\* The last event of a list that has the id k.
LastWithId(events, k) ==
    events[CHOOSE i \in DOMAIN events :
              /\ IdOf(events[i]) = k
              /\ \A j \in DOMAIN events : IdOf(events[j]) = k => j <= i]

HasBegin(event) ==
    event.t = "dict" /\ "begin" \in DOMAIN event.v /\ event.v["begin"] # None

\* C1: merging the same cleaned list a second time leaves the store's
\* contents exactly as the first merge left them, with no id twice, a
\* new-counter of 0 and every incoming event that has an id counted as
\* updated.
C1_MergeIdempotent ==
    pc = "merged_again" =>
        /\ Values(events_dict) = final_events_list
        /\ NoTwoWithSameId(Values(events_dict))
        /\ new_count = PyInt(0)
        /\ updated_count = PyInt(NumWithId(newly_cleaned_events))

\* A second pass over a list of two events that both went into the store,
\* one of them new in the first pass.
C1_Witness ==
    /\ pc = "merged_again"
    /\ updated_count = PyInt(2)
    /\ Len(final_events_list) > Len(existing_events_list.v)

\* C2: once the merge step is over, every event of the store, and every
\* event of the saved file, has a non-empty id and a non-null begin.
C2_IdentityInvariant ==
    /\ pc \in {"merged", "saving", "saved"} =>
          \A i \in DOMAIN events_dict :
              Truthy(IdOf(events_dict[i].v)) /\ HasBegin(events_dict[i].v)
    /\ pc = "saved" =>
          \A i \in DOMAIN CLEANED_DATA_FILE.doc.v :
              /\ Truthy(IdOf(CLEANED_DATA_FILE.doc.v[i]))
              /\ HasBegin(CLEANED_DATA_FILE.doc.v[i])

\* C3: the saved list holds no two events with one id, and for an id of
\* the incoming batch it holds the last incoming event with that id.
C3_OnePerIdLastWins ==
    pc = "saved" =>
        LET saved == CLEANED_DATA_FILE.doc.v
        IN  /\ NoTwoWithSameId(saved)
            /\ \A i \in DOMAIN saved : Truthy(IdOf(saved[i]))
            /\ \A k \in IdsIn(newly_cleaned_events) :
                  \E i \in DOMAIN saved :
                      saved[i] = LastWithId(newly_cleaned_events, k)

\* A save after the loaded file held an id twice and the batch held an id
\* twice.
C3_Witness ==
    /\ pc = "saved"
    /\ existing_events_list.t = "list"
    /\ ~NoTwoWithSameId(existing_events_list.v)
    /\ Len(newly_cleaned_events) = 2
    /\ Cardinality(IdsIn(newly_cleaned_events)) = 1

\* The incoming events before position i that have the id of event i.
SeenBefore(events, i) == \E j \in 1..(i - 1) : IdOf(events[j]) = IdOf(events[i])

\* C4: a merge leaves the union of the store and the incoming events by
\* id, the incoming event winning; each incoming event with an id adds 1 to
\* the updated-counter when its id is in the store when it is merged and 1
\* to the new-counter when it is not, and nothing to the other counter.
C4_MergePrecedence ==
    [][(pc = "cleaned" /\ pc' = "merged" /\ newly_cleaned_events # <<>>) =>
        LET incoming == newly_cleaned_events
            withId == {i \in DOMAIN incoming : Truthy(IdOf(incoming[i]))}
            known(i) == IdOf(incoming[i]) \in Keys(events_dict)
                        \/ SeenBefore(incoming, i)
        IN  /\ Keys(events_dict') = Keys(events_dict) \cup IdsIn(incoming)
            /\ \A i \in DOMAIN events_dict' :
                  LET k == events_dict'[i].k
                  IN  IF k \in IdsIn(incoming)
                      THEN events_dict'[i].v = LastWithId(incoming, k)
                      ELSE \E j \in DOMAIN events_dict :
                              events_dict[j] = events_dict'[i]
            /\ updated_count' = PyInt(Cardinality({i \in withId : known(i)}))
            /\ new_count' = PyInt(Cardinality({i \in withId : ~known(i)}))
      ]_vars

\* A merge of an incoming event over a stored event with the same id and
\* another summary: one update, nothing new.
C4_Witness ==
    /\ pc = "merged"
    /\ updated_count = PyInt(1)
    /\ new_count = PyInt(0)
    /\ \E i \in DOMAIN existing_events_list.v :
          /\ IdOf(existing_events_list.v[i]) = Str("A")
          /\ existing_events_list.v[i].v["summary"] = Str("old")
    /\ \E i \in DOMAIN events_dict :
          events_dict[i].k = Str("A") /\ events_dict[i].v.v["summary"] = Str("new")

\* The non-empty ids of the event objects of a JSON document.
DocIds(doc) ==
    IF doc.t = "list"
    THEN {IdOf(doc.v[i]) : i \in {j \in DOMAIN doc.v : Truthy(IdOf(doc.v[j]))}}
    ELSE {}

\* The non-empty ids of the events persisted in a store file.
StoreIds(file) == IF file.kind = "json" THEN DocIds(file.doc) ELSE {}

\* C5: a run loads every id of the persisted store, and a run that
\* completes leaves every id it loaded in the persisted store, whatever the
\* fetch returned: no completed run removes an id.
C5_NoRunRemovesAnId ==
    [][/\ pc' = "loaded" =>
            DocIds(existing_events_list') = StoreIds(CLEANED_DATA_FILE)
       /\ pc' = "done" =>
            DocIds(existing_events_list) \subseteq StoreIds(CLEANED_DATA_FILE')
      ]_vars

\* The second run saves a store that still holds x1, an id the first run
\* stored and the second fetch did not bring.
C5_Witness ==
    /\ runs = 2
    /\ pc = "saved"
    /\ Str("x1") \in DocIds(existing_events_list)
    /\ newly_cleaned_events # <<>>
    /\ Str("x1") \notin IdsIn(newly_cleaned_events)
    /\ Str("x1") \in StoreIds(CLEANED_DATA_FILE)

\* C6: a run whose fetch returned no data never reaches the clean, merge,
\* save or render step, and its two steps (load, fetch) leave the store
\* file and the calendar file as they were.
C6_NoDataNoOp ==
    /\ [](pc \in {"fetched", "cleaned", "merged", "saving", "saved"} =>
            Truthy(raw_response_data))
    /\ [][(pc' = "loaded" \/ (pc = "loaded" /\ pc' = "done")) =>
            (CLEANED_DATA_FILE' = CLEANED_DATA_FILE /\ ICS_FILE' = ICS_FILE)
         ]_vars

\* The first run has ended normally and the unparsable store file and the
\* previous calendar are still there: the run returned at the fetch.
C6_Witness ==
    /\ pc = "done"
    /\ runs = 1
    /\ CLEANED_DATA_FILE = InvalidFile
    /\ ICS_FILE = IcsFile({OldEntry})

\* C7: a run that finds the store file absent, empty or unparsable loads
\* an empty list without raising and goes on with an empty dict.
C7_CorruptLoadRecovery ==
    [][(runs' = runs + 1
        /\ CLEANED_DATA_FILE.kind \in {"absent", "empty", "invalid"}) =>
            /\ pc' = "loaded"
            /\ existing_events_list' = PyList(<<>>)
            /\ events_dict' = <<>>
      ]_vars

\* A run has loaded an unparsable store file and goes on.
C7_Witness ==
    /\ pc = "cleaned"
    /\ CLEANED_DATA_FILE = InvalidFile
    /\ events_dict = <<>>

\* C9: a render that builds a calendar without any entry (no event, or
\* every event skipped) leaves the calendar file as it was, absent or
\* with its previous contents; no other step touches the calendar file.
C9_EmptyRenderGuard ==
    [][(~(pc = "saved" /\ pc' = "done")
        \/ \A i \in DOMAIN final_events_list :
              ~RenderEvent(final_events_list[i]).ok) =>
            ICS_FILE' = ICS_FILE
      ]_vars

\* A run has saved a store whose only event has a begin the calendar
\* library does not parse, and the previous calendar is still in place.
C9_Witness ==
    /\ pc = "done"
    /\ ICS_FILE = IcsFile({OldEntry})
    /\ CLEANED_DATA_FILE.kind = "json"
    /\ CLEANED_DATA_FILE.doc.t = "list"
    /\ Len(CLEANED_DATA_FILE.doc.v) = 1
    /\ HasBegin(CLEANED_DATA_FILE.doc.v[1])
    /\ CLEANED_DATA_FILE.doc.v[1].v["begin"] = Str("tomorrow")

\* C10: the calendar file changes only in a step taken after the save has
\* completed, when the store file holds the whole merged store, and it
\* then holds the calendar of that store; a run interrupted between save
\* and render leaves the whole merged store on disk and the calendar as
\* it was.
C10_PersistBeforeRender ==
    [][/\ ICS_FILE' # ICS_FILE =>
            /\ pc = "saved"
            /\ CLEANED_DATA_FILE = JsonFile(PyList(Values(events_dict)))
            /\ ICS_FILE' = IcsFile(CalEvents(Values(events_dict)))
       /\ (pc = "saved" /\ pc' = "interrupted") =>
            /\ CLEANED_DATA_FILE' = JsonFile(PyList(Values(events_dict)))
            /\ ICS_FILE' = ICS_FILE
      ]_vars

\* The first run was interrupted with x1, an event of its fetch, saved
\* and no calendar written.
C10_Witness ==
    /\ pc = "interrupted"
    /\ runs = 1
    /\ Str("x1") \in StoreIds(CLEANED_DATA_FILE)
    /\ ICS_FILE = Absent

\* The field values that are null, or decode to null or to an empty value.
NullOrEmptyValues ==
    {None, Str("null"), PyStr(<<Quote, Quote>>), PyStr(<<"[", "]">>), EmptyStr}

\* The post has no start_date field, or none with another value than those.
NoStartDate(post) ==
    LET fields == IF "fields" \in DOMAIN post.v /\ post.v["fields"].t = "list"
                  THEN post.v["fields"].v ELSE <<>>
    IN  \A i \in DOMAIN fields :
            fields[i].v["key"] = Str("start_date") =>
                fields[i].v["value"] \in NullOrEmptyValues

\* C8: clean_data returns no event for a post whose start_date field is
\* absent, null, or decodes to null or to an empty value, and every event
\* it returns has a begin that is neither null nor empty.
C8_FilterLaw ==
    pc = "clean_data returned" =>
        LET nodes == raw_response_data.v["data"].v["posts"].v["nodes"].v
        IN  /\ \A j \in DOMAIN newly_cleaned_events :
                  /\ HasBegin(newly_cleaned_events[j])
                  /\ newly_cleaned_events[j].v["begin"]
                        \notin {EmptyStr, PyList(<<>>), EmptyDict}
            /\ \A i \in DOMAIN nodes :
                  NoStartDate(nodes[i]) =>
                      \A j \in DOMAIN newly_cleaned_events :
                          newly_cleaned_events[j].v["summary"] # nodes[i].v["title"]

\* clean_data returned the one dated post of two, the other one's
\* start_date decoding to an empty string.
C8_Witness ==
    /\ pc = "clean_data returned"
    /\ Len(newly_cleaned_events) = 1
    /\ newly_cleaned_events[1].v["summary"] = Str("dated")
    /\ \E i \in DOMAIN raw_response_data.v["data"].v["posts"].v["nodes"].v :
          raw_response_data.v["data"].v["posts"].v["nodes"].v[i].v["title"]
              = Str("decodes to empty str")


\* C11: a save that does not write the whole merged store ends the run
\* with the exception raised (or the process killed), never in the render
\* step: the render step starts only from a completely saved store, and
\* the step in which the save fails leaves the calendar file as it was.
C11_SaveFailureIsFatal ==
    /\ [](pc = "saved" => CLEANED_DATA_FILE = JsonFile(PyList(final_events_list)))
    /\ [][(pc \in {"merged", "saving"} /\ pc' \notin {"saving", "saved"}) =>
            /\ pc' \in {"raised", "interrupted"}
            /\ ICS_FILE' = ICS_FILE
         ]_vars

\* The second run ended with an exception and a partial store file, after
\* a first run that saved x1 and wrote it to the calendar, which is still
\* as the first run wrote it.
C11_Witness ==
    /\ pc = "raised"
    /\ runs = 2
    /\ CLEANED_DATA_FILE = InvalidFile
    /\ ICS_FILE.kind = "ics"
    /\ \E en \in ICS_FILE.entries : en.uid = Str("x1")


\* The payload, the event and the calendar entry of the end-to-end scenario.
ScenarioPayload ==
    Payload(PyList(<<
        PyDict([id |-> Str("x1"), title |-> PyStr(<<ComingSoon, WS, "Demo">>),
                fields |-> PyList(<<Field("start_date",
                                          PyStr(<<Quote, D1, Quote>>))>>)]) >>))

ScenarioEvent ==
    PyDict([id |-> Str("x1"), summary |-> Str("Demo"), description |-> EmptyStr,
            url |-> EmptyStr, begin |-> Str(D1), end |-> None])

ScenarioEntry ==
    [uid |-> Str("x1"), name |-> Str("Demo"), begin |-> Str(D1), end |-> None,
     description |-> EmptyStr, url |-> None]

\* C12: a run that found no store file and fetched the one post x1 titled
\* "(Coming Soon) Demo" with the JSON-encoded start 2024-01-01T10:00:00
\* merges exactly the event x1/"Demo"/2024-01-01T10:00:00, saves a store
\* holding exactly that event and writes a calendar holding exactly the
\* entry with that start and the summary "Demo".
C12_EndToEnd ==
    /\ []((pc = "merged" /\ CLEANED_DATA_FILE = Absent
           /\ raw_response_data = ScenarioPayload) =>
              final_events_list = <<ScenarioEvent>>)
    /\ [][(pc = "saving" /\ pc' = "saved"
           /\ existing_events_list = PyList(<<>>)
           /\ raw_response_data = ScenarioPayload) =>
              CLEANED_DATA_FILE' = JsonFile(PyList(<<ScenarioEvent>>))
         ]_vars
    /\ [][(pc = "saved" /\ pc' = "done"
           /\ existing_events_list = PyList(<<>>)
           /\ raw_response_data = ScenarioPayload) =>
              ICS_FILE' = IcsFile({ScenarioEntry})
         ]_vars

\* The first run has ended with the scenario's store and calendar on disk.
C12_Witness ==
    /\ pc = "done"
    /\ runs = 1
    /\ CLEANED_DATA_FILE = JsonFile(PyList(<<ScenarioEvent>>))
    /\ ICS_FILE = IcsFile({ScenarioEntry})


\* C13: a save that fails or is interrupted leaves a store file that holds
\* either what the run loaded or the whole merged store.
C13_SaveIsAllOrNothing ==
    [][(pc \in {"merged", "saving"} /\ pc' \in {"raised", "interrupted"}) =>
            \/ CLEANED_DATA_FILE' = JsonFile(PyList(final_events_list))
            \/ /\ load_from_file(CLEANED_DATA_FILE').ok
               /\ load_from_file(CLEANED_DATA_FILE').val = existing_events_list
      ]_vars


\* C14: the first step of a run does not fail on a store file that holds
\* well-formed JSON, whatever the document: a document that is not an
\* array of objects gives an empty dict.
C14_LoadNeverFails ==
    [][(runs' = runs + 1 /\ CLEANED_DATA_FILE.kind = "json") =>
            /\ pc' = "loaded"
            /\ (\/ CLEANED_DATA_FILE.doc.t # "list"
                \/ \E i \in DOMAIN CLEANED_DATA_FILE.doc.v :
                      CLEANED_DATA_FILE.doc.v[i].t # "dict")
               => events_dict' = <<>>
      ]_vars


\* C15: a run whose fetch returned data and whose cleaned list is empty
\* goes on to the save and the render without merging or counting: the
\* dict stays the one built from the loaded list, and what is saved and
\* rendered is that dict's events, each an event of the loaded list, one
\* per id of the loaded list.
C15_EmptyBatchStillSaves ==
    /\ []((pc \in {"merged", "saving", "saved"} /\ newly_cleaned_events = <<>>) =>
            /\ new_count = None /\ updated_count = None
            /\ final_events_list = Values(events_dict)
            /\ Keys(events_dict) = DocIds(existing_events_list)
            /\ \A i \in DOMAIN final_events_list :
                  \E j \in DOMAIN existing_events_list.v :
                      existing_events_list.v[j] = final_events_list[i])
    /\ [][(pc \in {"cleaned", "merged", "saving", "saved"}
           /\ newly_cleaned_events = <<>>
           /\ pc' \notin {"raised", "interrupted"}) =>
            /\ pc = "cleaned" => (pc' = "merged" /\ events_dict' = events_dict)
            /\ pc = "merged" => pc' = "saving"
            /\ pc = "saving" =>
                  (pc' = "saved"
                   /\ CLEANED_DATA_FILE' = JsonFile(PyList(final_events_list)))
            /\ pc = "saved" =>
                  (pc' = "done"
                   /\ ICS_FILE' = IF CalEvents(final_events_list) = {}
                                  THEN ICS_FILE
                                  ELSE IcsFile(CalEvents(final_events_list)))
         ]_vars

\* A run whose fetch brought only a post without a start date has saved
\* the one dated event it loaded and is about to render it.
C15_Witness ==
    /\ pc = "saved"
    /\ Truthy(raw_response_data)
    /\ newly_cleaned_events = <<>>
    /\ Len(existing_events_list.v) = 2
    /\ final_events_list = <<StoredEvent(Str("A"), "older", Str(D2))>>


\* The payload has the three nesting levels data, posts and nodes, each
\* a key of a mapping.
LevelsPresent(raw) ==
    /\ raw.t = "dict" /\ "data" \in DOMAIN raw.v
    /\ raw.v["data"].t = "dict" /\ "posts" \in DOMAIN raw.v["data"].v
    /\ raw.v["data"].v["posts"].t = "dict"
    /\ "nodes" \in DOMAIN raw.v["data"].v["posts"].v

\* C16: clean_data returns an empty list, and does not raise, for a
\* payload in which one of the levels data, posts, nodes is absent, a
\* level with a null or non-mapping value included.
C16_DefensiveShapeCheck ==
    [][(pc = "fetched" /\ ~LevelsPresent(raw_response_data)
        /\ pc' # "interrupted") =>
            (pc' = "cleaned" /\ newly_cleaned_events' = <<>>)
      ]_vars

\* The nodes of a payload that has the three levels.
NodesOf(raw) == raw.v["data"].v["posts"].v["nodes"]

\* C17: clean_data does not raise on a list of post records whatever of
\* title, description, url and fields is absent, null or present; a sole
\* cleaned post without a title gets the summary "No Title", without a
\* description or url the empty string, and a start_date value that is
\* not JSON is kept as it is.
C17_TolerantOfFields ==
    [][(pc = "fetched" /\ LevelsPresent(raw_response_data)
        /\ NodesOf(raw_response_data).t = "list"
        /\ pc' # "interrupted") =>
            /\ pc' = "cleaned"
            /\ (Len(NodesOf(raw_response_data).v) = 1
                /\ Len(newly_cleaned_events') = 1) =>
                  LET post == NodesOf(raw_response_data).v[1].v
                      event == newly_cleaned_events'[1].v
                  IN  /\ "title" \notin DOMAIN post =>
                            event["summary"] = Str("No Title")
                      /\ "description" \notin DOMAIN post =>
                            event["description"] = EmptyStr
                      /\ "url" \notin DOMAIN post => event["url"] = EmptyStr
                      /\ ("fields" \in DOMAIN post /\ post["fields"] =
                            PyList(<<Field("platform", Str("7")),
                                     Field("start_date", Str("tomorrow"))>>))
                         => event["begin"] = Str("tomorrow")
      ]_vars


\* The positions of the events of a list that render.
Rendered(events) == {i \in DOMAIN events : RenderEvent(events[i]).ok}

\* C18: the render step always completes; when some event of the saved
\* list renders, the calendar file written has exactly one entry per
\* rendered event, carrying its id, none for an event that failed
\* wherever it sits in the list, and no entry of the file it replaces.
C18_RenderIsolation ==
    [][(pc = "saved" /\ pc' # "interrupted") =>
            /\ pc' = "done"
            /\ Rendered(final_events_list) # {} =>
                /\ ICS_FILE'.kind = "ics"
                /\ Cardinality(ICS_FILE'.entries) =
                       Cardinality(Rendered(final_events_list))
                /\ \A i \in Rendered(final_events_list) :
                       \E en \in ICS_FILE'.entries :
                           /\ en = RenderEvent(final_events_list[i]).entry
                           /\ en.uid = IdOf(final_events_list[i])
                /\ \A i \in DOMAIN final_events_list \ Rendered(final_events_list) :
                       \A en \in ICS_FILE'.entries :
                           en.uid # IdOf(final_events_list[i])
                /\ \A en \in ICS_FILE'.entries :
                       \E i \in Rendered(final_events_list) :
                           en = RenderEvent(final_events_list[i]).entry
      ]_vars

\* A first run has ended over a saved list whose first event fails to
\* render and whose second renders: the calendar holds the second alone.
C18_Witness ==
    /\ pc = "done" /\ runs = 1
    /\ CLEANED_DATA_FILE =
           JsonFile(PyList(<<PyDict([id |-> Str("B"), summary |-> Str("partial")]),
                             StoredEvent(Str("A"), "old", Str(D1))>>))
    /\ ICS_FILE = IcsFile({RenderEvent(StoredEvent(Str("A"), "old", Str(D1))).entry})


\* C19: after the merge of a non-empty cleaned list the two counters add
\* up to the number of incoming events with a non-empty id, new_count is
\* the number of distinct incoming ids that the loaded store (the events
\* of the loaded list, by non-empty id) does not have, and the store has
\* as many events as the loaded store had plus new_count.
C19_CounterAccounting ==
    (pc \in {"merged", "saving", "saved"} /\ newly_cleaned_events # <<>>) =>
        LET loaded == IdsIn(existing_events_list.v)
            incoming == IdsIn(newly_cleaned_events)
        IN  /\ new_count.t = "int" /\ updated_count.t = "int"
            /\ new_count.v + updated_count.v = NumWithId(newly_cleaned_events)
            /\ new_count.v = Cardinality(incoming \ loaded)
            /\ Len(events_dict) = Cardinality(loaded) + new_count.v
            /\ Keys(events_dict) = loaded \cup incoming

\* Two incoming events share an id the loaded store of one event does
\* not have: the first is counted new, the second updated.
C19_Witness ==
    /\ pc = "merged"
    /\ Len(newly_cleaned_events) = 2
    /\ IdsIn(newly_cleaned_events) = {Str("A")}
    /\ IdsIn(existing_events_list.v) = {Str("B")}
    /\ new_count = PyInt(1) /\ updated_count = PyInt(1)
    /\ Len(events_dict) = 2

\* One of two incoming events has no id and is counted in neither
\* counter; the other replaces an event of the loaded store.
C19_WitnessSkipped ==
    /\ pc = "merged"
    /\ Len(newly_cleaned_events) = 2
    /\ NumWithId(newly_cleaned_events) = 1
    /\ new_count = PyInt(0) /\ updated_count = PyInt(1)

====
